---- MODULE Spec2Model ----
(***************************************************************************)
(* A model of the Flow Runner of WhyBecause (src/doc-flow-kit/FlowRunner.ts)*)
(* together with the collaborators it calls: the Document Store            *)
(* (DocFlowKit.getDocument) and the LLM services of LLMService.ts.          *)
(*                                                                         *)
(* One FlowRunner instance is modelled.  Its fields are the variables flow, *)
(* project and currentStateId.  The synchronous methods are one action      *)
(* each; the asynchronous runCurrentState is split at its two awaits, so    *)
(* that the synchronous methods can run while it is suspended.  The         *)
(* variable last records the most recently completed call (its argument,   *)
(* the position it was called at, and how it ended) so that the contract    *)
(* of each method can be stated over states.                                *)
(***************************************************************************)
EXTENDS Integers, Sequences, FiniteSets, TLC

VARIABLES
  flow,            \* FlowRunner.flow: the bound FlowDoc (title, content.nodes, content.edges)
  project,         \* FlowRunner.project: the bound ProjectDoc, or UNDEFINED
  currentStateId,  \* FlowRunner.currentStateId: string | null
  run,             \* the invocation of runCurrentState that is in flight, if any
  last,            \* the most recently completed call and its outcome
  ui,              \* FlowRunnerUI: its currentStateId and isRunning state
  editor,          \* FlowManager / DiagramManager: nodes, edges and the selection
  app,             \* App and ProjectProvider: active documents, project, calls in flight
  kit              \* DocFlowKit: its db field and the documents object store

vars == <<flow, project, currentStateId, run, last, ui, editor, app, kit>>

----------------------------------------------------------------------------
(* JavaScript values.  null and undefined are modelled as two reserved      *)
(* strings, so that they compare with the string identifiers of the code.   *)

NULL == "<null>"
UNDEFINED == "<undefined>"

\* !x of JavaScript for x a string, null or undefined
Falsy(x) == x = NULL \/ x = UNDEFINED \/ x = ""

----------------------------------------------------------------------------
(* Bounds of the model.                                                     *)

\* the longest list of transitions a flow of the model has
MaxEdges == 2

\* the identifiers the states of a flow are drawn from (FlowManager draws
\* them with crypto.randomUUID(), so they are distinct and non-empty)
StateIds == <<"A", "B">>

\* an identifier that is the id of no state of any flow of the model
DanglingId == "X"

\* the identifier of the only agent document states refer to
AgentIds == {"ag1"}

\* an identifier that is the id of no transition of any flow of the model
UnknownEdgeId == "t0"

----------------------------------------------------------------------------
(* Documents (types.ts).  A FlowStateNode is [id, label, type, agentId], a  *)
(* FlowTransitionEdge is [id, source, target]; the property bags, which the *)
(* runner never reads, are left out.  "T | null" is modelled as a sequence   *)
(* of at most one T.                                                        *)

None == <<>>
Some(x) == <<x>>

StateTypes == <<"Start", "Final">>

FlowStateNode(i, agentId) ==
  [id |-> StateIds[i], label |-> "State " \o StateIds[i],
   type |-> StateTypes[i], agentId |-> agentId]

\* the lists of states: the first n identifiers, each state with or without
\* an agent reference
NodeLists ==
  UNION { { [i \in 1..n |-> FlowStateNode(i, a[i])] :
              a \in [1..n -> AgentIds \cup {UNDEFINED}] } : n \in 0..Len(StateIds) }

FlowTransitionEdge(i, source, target) ==
  [id |-> "t" \o ToString(i), source |-> source, target |-> target]

\* the lists of at most MaxEdges transitions over the states of nodes and one
\* identifier that no state has; sources, targets, self-loops and parallel
\* transitions are not restricted, as FlowRunner validates none of them
EdgeLists(nodes) ==
  LET ends == { nodes[i].id : i \in 1..Len(nodes) } \cup {DanglingId}
  IN  UNION { { [i \in 1..m |-> FlowTransitionEdge(i, e[i][1], e[i][2])] :
                  e \in [1..m -> ends \X ends] } : m \in 0..MaxEdges }

FlowDocs ==
  UNION { { [docId |-> "flow1", docType |-> "Flow", title |-> "Demo",
             content |-> [nodes |-> ns, edges |-> es]] : es \in EdgeLists(ns) } :
          ns \in NodeLists }

nodes == flow.content.nodes
edges == flow.content.edges

\* LLMSettings (LLMService.ts).  model, temperature and maxTokens only fill
\* the request body and are left out.
LLMSettings(provider, apiKey, apiEndpoint) ==
  [provider |-> provider, apiKey |-> apiKey, apiEndpoint |-> apiEndpoint]

DEFAULT_LLM_SETTINGS == LLMSettings("dummy", UNDEFINED, UNDEFINED)

\* the settings a project of the model carries
SettingsOfModel ==
  { LLMSettings("ollama", UNDEFINED, UNDEFINED),
    LLMSettings("azureOpenAI", "key", "https://azure.example") }

\* the project argument of the constructor: None when the caller passes no
\* project (FlowRunnerUI), else a ProjectDoc whose content carries llmSettings
\* or not
ProjectDocs ==
  {None}
    \cup { Some([docId |-> "proj1", docType |-> "Project",
                 content |-> [llmSettings |-> s]]) :
           s \in {Some(x) : x \in SettingsOfModel} \cup {None} }

AgentDoc ==
  [docId |-> "ag1", docType |-> "Agent", title |-> "Agent One",
   content |-> [promptTemplate |->
      <<"Analyze ", "{stateName}", " in ", "{flowName}", ": ", "{input}">>]]

\* a document of another type stored under the agent's identifier
OtherDoc ==
  [docId |-> "ag1", docType |-> "Diagram", title |-> "Not an agent",
   content |-> [promptTemplate |-> <<>>]]

----------------------------------------------------------------------------
(* Outcomes of a call: it returns a value or throws an Error.  An Error is  *)
(* modelled by its message, with the interpolated identifier left out.      *)

Returned(v) == [outcome |-> "returned", value |-> v]
Threw(message) == [outcome |-> "threw", value |-> message]

StateNotFound == "State with id=${stateId} not found in the flow."
NoCurrentState == "No current state set. Call setStartState() first."
TransitionNotFound == "Transition with id=${edgeId} not found in the flow."
IllegalTransition == "Transition ${edgeId} is not available from the current state."
UnknownState == "Unknown State"
NotInitialized == "DocFlowKit not initialized"
ProjectIsUndefined == "Cannot read properties of undefined (reading 'content')"

\* seq.find(x => x.id === id): the first element with that id, or None
FindById(seq, id) ==
  LET hits == { i \in 1..Len(seq) : seq[i].id = id }
  IN  IF hits = {} THEN None
      ELSE Some(seq[CHOOSE i \in hits : \A j \in hits : i <= j])

----------------------------------------------------------------------------
(* The methods of FlowRunner as functions of the fields.                    *)

\* getCurrentState(): the state at the position pos
CurrentStateAt(pos) ==
  IF Falsy(pos) THEN None
  ELSE FindById(nodes, pos)

getCurrentState == CurrentStateAt(currentStateId)

getCurrentStateId == currentStateId

\* getAvailableTransitions that filters on the target of a transition
getAvailableTransitions_ByTarget ==
  IF Falsy(currentStateId) THEN <<>>
  ELSE LET Enters(e) == e.target = currentStateId IN SelectSeq(edges, Enters)

\* getAvailableTransitions that is empty where the position is no state
getAvailableTransitions_NoneWithoutState ==
  IF getCurrentState = None THEN <<>>
  ELSE LET Leaves(e) == e.source = currentStateId IN SelectSeq(edges, Leaves)

getAvailableTransitions ==
  IF Falsy(currentStateId) THEN <<>>
  ELSE LET Leaves(e) == e.source = currentStateId IN SelectSeq(edges, Leaves)

\* setStartState that seeds the position only when none is set
setStartState_OnlyFromNull(stateId) ==
  LET state == FindById(nodes, stateId)
  IN  IF state = None
      THEN [result |-> Threw(StateNotFound), position |-> currentStateId]
      ELSE [result |-> Returned(UNDEFINED),
            position |-> IF currentStateId = NULL THEN stateId ELSE currentStateId]

\* setStartState that assigns the position before it looks the state up
setStartState_AssignFirst(stateId) ==
  LET state == FindById(nodes, stateId)
  IN  IF state = None
      THEN [result |-> Threw(StateNotFound), position |-> stateId]
      ELSE [result |-> Returned(UNDEFINED), position |-> stateId]

\* setStartState(stateId): the outcome and the position it leaves
setStartState(stateId) ==
  LET state == FindById(nodes, stateId)
  IN  IF state = None
      THEN [result |-> Threw(StateNotFound), position |-> currentStateId]
      ELSE [result |-> Returned(UNDEFINED), position |-> stateId]

\* transitionTo without the check of the transition's source (lines 138-140)
transitionTo_NoSourceCheck(edgeId) ==
  LET edge == FindById(edges, edgeId)
  IN  IF Falsy(currentStateId)
      THEN [result |-> Threw(NoCurrentState), position |-> currentStateId]
      ELSE IF edge = None
      THEN [result |-> Threw(TransitionNotFound), position |-> currentStateId]
      ELSE LET newState == CurrentStateAt(edge[1].target)
           IN  [result |-> Returned(IF newState # None THEN newState[1].label
                                    ELSE UnknownState),
                position |-> edge[1].target]

\* transitionTo that reads the label before it moves the position
transitionTo_StaleLabel(edgeId) ==
  LET edge == FindById(edges, edgeId)
  IN  IF Falsy(currentStateId)
      THEN [result |-> Threw(NoCurrentState), position |-> currentStateId]
      ELSE IF edge = None
      THEN [result |-> Threw(TransitionNotFound), position |-> currentStateId]
      ELSE IF edge[1].source # currentStateId
      THEN [result |-> Threw(IllegalTransition), position |-> currentStateId]
      ELSE LET newState == CurrentStateAt(currentStateId)
           IN  [result |-> Returned(IF newState # None THEN newState[1].label
                                    ELSE UnknownState),
                position |-> edge[1].target]

\* transitionTo without the check that a position is set (lines 128-130)
transitionTo_NoPositionCheck(edgeId) ==
  LET edge == FindById(edges, edgeId)
  IN  IF edge = None
      THEN [result |-> Threw(TransitionNotFound), position |-> currentStateId]
      ELSE IF edge[1].source # currentStateId
      THEN [result |-> Threw(IllegalTransition), position |-> currentStateId]
      ELSE LET newState == CurrentStateAt(edge[1].target)
           IN  [result |-> Returned(IF newState # None THEN newState[1].label
                                    ELSE UnknownState),
                position |-> edge[1].target]

\* transitionTo(edgeId): the outcome and the position it leaves
transitionTo(edgeId) ==
  LET edge == FindById(edges, edgeId)
  IN  IF Falsy(currentStateId)
      THEN [result |-> Threw(NoCurrentState), position |-> currentStateId]
      ELSE IF edge = None
      THEN [result |-> Threw(TransitionNotFound), position |-> currentStateId]
      ELSE IF edge[1].source # currentStateId
      THEN [result |-> Threw(IllegalTransition), position |-> currentStateId]
      ELSE LET newState == CurrentStateAt(edge[1].target)
           IN  [result |-> Returned(IF newState # None THEN newState[1].label
                                    ELSE UnknownState),
                position |-> edge[1].target]

\* reset that leaves the position where it is
reset_KeepsPosition == currentStateId

\* reset(): the position it leaves
reset == NULL

----------------------------------------------------------------------------
(* Strings that are built from parts (prompts, responses, the strings       *)
(* runCurrentState returns) are sequences of pieces; a placeholder such as  *)
(* {stateName} is one piece.                                                *)

InputFallback == "Please analyze this flow state and provide insights."

\* what replace inserts for a match: the replacement string, in which $& is
\* the matched text and $$ is a dollar sign
Replacement(value, matched) ==
  CASE value = "$&" -> matched
    [] value = "$$" -> "$"
    [] OTHER -> value

\* String.prototype.replace(/ph/g, value) on a string of pieces
RECURSIVE ReplaceAll(_, _, _)
ReplaceAll(str, ph, value) ==
  IF str = <<>> THEN <<>>
  ELSE (IF Head(str) = ph THEN <<Replacement(value, ph)>> ELSE <<Head(str)>>)
         \o ReplaceAll(Tail(str), ph, value)

\* Object.entries(variables).forEach: one replace per key, in insertion order
RECURSIVE ReplaceEach(_, _)
ReplaceEach(str, entries) ==
  IF entries = <<>> THEN str
  ELSE ReplaceEach(ReplaceAll(str, "{" \o Head(entries)[1] \o "}", Head(entries)[2]),
                   Tail(entries))

processPromptTemplate(template, variables) ==
  LET processed == ReplaceEach(template, variables)
  IN  IF \E i \in 1..Len(processed) : processed[i] = "{input}"
      THEN ReplaceAll(processed, "{input}", InputFallback)
      ELSE processed

----------------------------------------------------------------------------
(* LLMService.ts.  fetch ends in one of FetchOutcomes; callLLM is the       *)
(* result of the service's try block passed through its catch block.        *)

FetchOutcomes == {"rejects", "notOk", "badJson", "noField", "ok"}

\* getLLMService with the cases in another order of preference
getLLMService_DefaultsToOllama(settings) ==
  CASE settings.provider = "azureOpenAI" -> "AzureOpenAIService"
    [] settings.provider = "dummy" -> "DummyService"
    [] OTHER -> "OllamaService"

getLLMService(settings) ==
  CASE settings.provider = "ollama" -> "OllamaService"
    [] settings.provider = "azureOpenAI" -> "AzureOpenAIService"
    [] OTHER -> "DummyService"

DummyCallLLM(prompt) ==
  Returned(<<"[SIMULATED LLM RESPONSE] The prompt you provided was: ">> \o prompt)

\* what the lines after the fetch make of its outcome
AfterFetch(name, net) ==
  CASE net = "rejects" -> Threw("Failed to fetch")
    [] net = "notOk" -> Threw(name \o " request failed: ${status}")
    [] net = "badJson" -> Threw("Unexpected token in JSON")
    [] net = "noField" -> Returned(<<"No response from " \o name>>)
    [] OTHER -> Returned(<<"<generated text>">>)

\* a network-backed service without its catch block
ServiceCatch_Rethrows(name, tried) == tried

\* the catch block of a network-backed service
ServiceCatch(name, tried) ==
  IF tried.outcome = "threw"
  THEN Returned(<<"Error calling " \o name \o ": ", tried.value>>)
  ELSE tried

OllamaCallLLM(settings, net) == ServiceCatch("Ollama", AfterFetch("Ollama", net))

\* the try block of AzureOpenAIService.callLLM with the request sent before
\* the endpoint is looked at
AzureTry_FetchesBeforeEndpointCheck(settings, net) ==
  IF Falsy(settings.apiKey)
  THEN [tried |-> Threw("Azure OpenAI API key is required"), fetches |-> 0]
  ELSE IF Falsy(settings.apiEndpoint)
  THEN [tried |-> Threw("Azure OpenAI endpoint is required"), fetches |-> 1]
  ELSE [tried |-> AfterFetch("Azure OpenAI", net), fetches |-> 1]

\* the try block of AzureOpenAIService.callLLM: what it comes to, and the
\* number of fetch calls it made
AzureTry(settings, net) ==
  IF Falsy(settings.apiKey)
  THEN [tried |-> Threw("Azure OpenAI API key is required"), fetches |-> 0]
  ELSE IF Falsy(settings.apiEndpoint)
  THEN [tried |-> Threw("Azure OpenAI endpoint is required"), fetches |-> 0]
  ELSE [tried |-> AfterFetch("Azure OpenAI", net), fetches |-> 1]

AzureCallLLM(settings, net) ==
  ServiceCatch("Azure OpenAI", AzureTry(settings, net).tried)

callLLM(service, prompt, settings, net) ==
  CASE service = "OllamaService" -> OllamaCallLLM(settings, net)
    [] service = "AzureOpenAIService" -> AzureCallLLM(settings, net)
    [] OTHER -> DummyCallLLM(prompt)

\* the number of fetch calls callLLM makes
fetchCalls(service, settings, net) ==
  CASE service = "OllamaService" -> 1
    [] service = "AzureOpenAIService" -> AzureTry(settings, net).fetches
    [] OTHER -> 0

----------------------------------------------------------------------------
(* DocFlowKit.getDocument as runCurrentState sees it: the promise rejects   *)
(* (the store is not initialized), or resolves to null, to the agent, or to *)
(* a document of another type.                                              *)

GetDocumentOutcomes ==
  { Threw(NotInitialized), Returned(None), Returned(Some(AgentDoc)),
    Returned(Some(OtherDoc)) }

----------------------------------------------------------------------------
(* runCurrentState.  It runs to its first await (the store fetch), resumes  *)
(* when the fetch settles and runs to its second await (the client call),   *)
(* and resumes when that settles.  Each part yields a step: Done(result)    *)
(* when the method completes, or the await it is suspended at.              *)

Done(result) == [pc |-> "done", result |-> result]

Idle == [pc |-> "idle"]

\* runCurrentState without the check for a missing agent (lines 58-60)
runToStoreFetch_NoAgentCheck ==
  LET state == getCurrentState
  IN  IF Falsy(currentStateId) THEN Done(Threw(NoCurrentState))
      ELSE IF state = None THEN Done(Threw(StateNotFound))
      ELSE [pc |-> "awaitStore", state |-> state[1], pre |-> currentStateId,
            storeCalls |-> 1, llmCalls |-> 0, fetched |-> None]

\* runCurrentState without the check that a position is set (lines 48-50)
runToStoreFetch_NoPositionCheck ==
  LET state == getCurrentState
  IN  IF state = None THEN Done(Threw(StateNotFound))
      ELSE IF Falsy(state[1].agentId)
      THEN Done(Returned(<<"State \"", state[1].label, "\" (", state[1].type,
                           ") has no agent assigned, so nothing to run.">>))
      ELSE [pc |-> "awaitStore", state |-> state[1], pre |-> currentStateId,
            storeCalls |-> 1, llmCalls |-> 0, fetched |-> None]

\* runCurrentState reporting a vanished state as a string (lines 53-55)
runToStoreFetch_StateMissingReturned ==
  LET state == getCurrentState
  IN  IF Falsy(currentStateId) THEN Done(Threw(NoCurrentState))
      ELSE IF state = None THEN Done(Returned(<<"Error: ", StateNotFound>>))
      ELSE IF Falsy(state[1].agentId)
      THEN Done(Returned(<<"State \"", state[1].label, "\" (", state[1].type,
                           ") has no agent assigned, so nothing to run.">>))
      ELSE [pc |-> "awaitStore", state |-> state[1], pre |-> currentStateId,
            storeCalls |-> 1, llmCalls |-> 0, fetched |-> None]

\* lines 48-60 and the call of line 64
runToStoreFetch ==
  LET state == getCurrentState
  IN  IF Falsy(currentStateId) THEN Done(Threw(NoCurrentState))
      ELSE IF state = None THEN Done(Threw(StateNotFound))
      ELSE IF Falsy(state[1].agentId)
      THEN Done(Returned(<<"State \"", state[1].label, "\" (", state[1].type,
                           ") has no agent assigned, so nothing to run.">>))
      ELSE [pc |-> "awaitStore", state |-> state[1], pre |-> currentStateId,
            storeCalls |-> 1, llmCalls |-> 0, fetched |-> None]

\* no catch block: what the try block throws leaves runCurrentState
catchError_Rethrows(step) == step

\* the catch block of lines 92-94
catchError(step) ==
  IF step.pc = "done" /\ step.result.outcome = "threw"
  THEN Done(Returned(<<"Error running agent: ", step.result.value>>))
  ELSE step

\* the try block without the check of the document's type (lines 70-72)
tryAfterStoreFetch_NoTypeCheck(r, fetched) ==
  IF fetched.outcome = "threw" THEN Done(fetched)
  ELSE LET agentDoc == fetched.value
       IN  IF agentDoc = None
           THEN Done(Returned(<<"Error: Agent with id=", r.state.agentId, " not found.">>))
           ELSE LET processedPrompt ==
                      processPromptTemplate(agentDoc[1].content.promptTemplate,
                        << <<"stateName", r.state.label>>,
                           <<"stateType", r.state.type>>,
                           <<"flowName", flow.title>> >>)
                IN  IF project = None THEN Done(Threw(ProjectIsUndefined))
                    ELSE LET configured == project[1].content.llmSettings
                             llmSettings == IF configured # None THEN configured[1]
                                            ELSE DEFAULT_LLM_SETTINGS
                         IN  [pc |-> "awaitLLM", state |-> r.state, pre |-> r.pre,
                              storeCalls |-> r.storeCalls, llmCalls |-> r.llmCalls + 1,
                              fetched |-> Some(fetched),
                              agentTitle |-> agentDoc[1].title,
                              processedPrompt |-> processedPrompt,
                              llmSettings |-> llmSettings,
                              llmService |-> getLLMService(llmSettings)]

\* lines 64-89 inside the try block, from the settled fetch to the client call
tryAfterStoreFetch(r, fetched) ==
  IF fetched.outcome = "threw" THEN Done(fetched)
  ELSE LET agentDoc == fetched.value
       IN  IF agentDoc = None
           THEN Done(Returned(<<"Error: Agent with id=", r.state.agentId, " not found.">>))
           ELSE IF agentDoc[1].docType # "Agent"
           THEN Done(Returned(<<"Error: Document with id=", r.state.agentId,
                                " is not an Agent.">>))
           ELSE LET processedPrompt ==
                      processPromptTemplate(agentDoc[1].content.promptTemplate,
                        << <<"stateName", r.state.label>>,
                           <<"stateType", r.state.type>>,
                           <<"flowName", flow.title>> >>)
                IN  IF project = None THEN Done(Threw(ProjectIsUndefined))
                    ELSE LET configured == project[1].content.llmSettings
                             llmSettings == IF configured # None THEN configured[1]
                                            ELSE DEFAULT_LLM_SETTINGS
                         IN  [pc |-> "awaitLLM", state |-> r.state, pre |-> r.pre,
                              storeCalls |-> r.storeCalls, llmCalls |-> r.llmCalls + 1,
                              fetched |-> Some(fetched),
                              agentTitle |-> agentDoc[1].title,
                              processedPrompt |-> processedPrompt,
                              llmSettings |-> llmSettings,
                              llmService |-> getLLMService(llmSettings)]

afterStoreFetch(r, fetched) == catchError(tryAfterStoreFetch(r, fetched))

\* lines 89-91 inside the try block, from the settled client call to the return
tryAfterCallLLM(r, response) ==
  IF response.outcome = "threw" THEN Done(response)
  ELSE Done(Returned(<<"[Agent: ", r.agentTitle, "]\n\nPrompt:\n">> \o r.processedPrompt
                       \o <<"\n\nResponse:\n">> \o response.value))

afterCallLLM(r, response) == catchError(tryAfterCallLLM(r, response))

----------------------------------------------------------------------------
(* The state machine.                                                       *)

\* the record of a completed call: the method, its argument, the position it
\* was called at, its outcome, and what it did to its collaborators (the
\* number of getDocument and callLLM calls it made, and what getDocument
\* settled to, if it did)
Call(op, arg, pre, result, r) ==
  [op |-> op, arg |-> arg, pre |-> pre, outcome |-> result.outcome,
   value |-> result.value, storeCalls |-> r.storeCalls, llmCalls |-> r.llmCalls,
   fetched |-> r.fetched]

NoCalls == [storeCalls |-> 0, llmCalls |-> 0, fetched |-> None]

\* FlowRunnerUI as mounted: no position shown, no run in flight
UIMounted == [currentStateId |-> NULL, isRunning |-> FALSE, log |-> "Flow loaded"]

\* an editor opened on a document with these nodes and edges, nothing
\* selected; created counts the identifiers crypto.randomUUID() has handed out
EditorOn(graphNodes, graphEdges) ==
  [nodes |-> graphNodes, edges |-> graphEdges, sourceId |-> "", targetId |-> "",
   created |-> 0]

\* new DocFlowKit(): db is null, and the object store holds what earlier
\* sessions left in it (here nothing)
KitConstructed == [db |-> NULL, documents |-> {}]

\* the three kinds of document that App opens
DocTypes == {"Diagram", "Flow", "Agent"}

\* App as mounted: active[t] is activeDiagramDoc, activeFlowDoc and
\* activeAgentDoc; documents is project.content.documents of the project in
\* the ProjectContext; pending holds the handlers suspended at an await;
\* created counts the identifiers crypto.randomUUID() has handed out
AppMounted ==
  [active |-> [t \in DocTypes |-> None], documents |-> <<>>, pending |-> {},
   created |-> 0]

\* the components that a specification does not exercise stay as constructed
ComponentsAsConstructed ==
  /\ ui = UIMounted
  /\ editor = EditorOn(<<>>, <<>>)
  /\ app = AppMounted
  /\ kit = KitConstructed

\* new FlowRunner(flowDoc, project)
Init ==
  /\ flow \in FlowDocs
  /\ project \in ProjectDocs
  /\ currentStateId = NULL
  /\ run = Idle
  /\ last = Call("constructor", UNDEFINED, NULL, Returned(UNDEFINED), NoCalls)
  /\ ComponentsAsConstructed

\* the identifiers a caller passes: those of the flow and one of no state
StateIdArgs == { nodes[i].id : i \in 1..Len(nodes) } \cup {DanglingId}

\* the identifiers a caller passes: those of the flow and one of no transition
EdgeIdArgs == { edges[i].id : i \in 1..Len(edges) } \cup {UnknownEdgeId}

SetStartState(stateId) ==
  LET done == setStartState(stateId)
  IN  /\ currentStateId' = done.position
      /\ last' = Call("setStartState", stateId, currentStateId, done.result, NoCalls)
      /\ UNCHANGED <<flow, project, run, ui, editor, app, kit>>

\* transitionTo split in two: the source is compared with the position read
\* when the previous transitionTo was issued, the target is assigned now
TransitionTo_FromPositionReadEarlier(edgeId) ==
  LET edge == FindById(edges, edgeId)
      read == IF last.op = "transitionTo" THEN last.pre ELSE currentStateId
      done == IF Falsy(read) \/ edge = None \/ edge[1].source # read
              THEN transitionTo(edgeId)
              ELSE [result |-> Returned(UnknownState), position |-> edge[1].target]
  IN  /\ currentStateId' = done.position
      /\ last' = Call("transitionTo", edgeId, currentStateId, done.result, NoCalls)
      /\ UNCHANGED <<flow, project, run, ui, editor, app, kit>>

TransitionTo(edgeId) ==
  LET done == transitionTo(edgeId)
  IN  /\ currentStateId' = done.position
      /\ last' = Call("transitionTo", edgeId, currentStateId, done.result, NoCalls)
      /\ UNCHANGED <<flow, project, run, ui, editor, app, kit>>

Reset ==
  /\ currentStateId' = reset
  /\ last' = Call("reset", UNDEFINED, currentStateId, Returned(UNDEFINED), NoCalls)
  /\ UNCHANGED <<flow, project, run, ui, editor, app, kit>>

GetCurrentState ==
  /\ last' = Call("getCurrentState", UNDEFINED, currentStateId,
                  Returned(getCurrentState), NoCalls)
  /\ UNCHANGED <<flow, project, currentStateId, run, ui, editor, app, kit>>

GetCurrentStateId ==
  /\ last' = Call("getCurrentStateId", UNDEFINED, currentStateId,
                  Returned(getCurrentStateId), NoCalls)
  /\ UNCHANGED <<flow, project, currentStateId, run, ui, editor, app, kit>>

GetAvailableTransitions ==
  /\ last' = Call("getAvailableTransitions", UNDEFINED, currentStateId,
                  Returned(getAvailableTransitions), NoCalls)
  /\ UNCHANGED <<flow, project, currentStateId, run, ui, editor, app, kit>>

\* a step of runCurrentState that puts the position back where the run began
Proceed_RestoresPosition(r, pre, step) ==
  /\ IF step.pc = "done"
     THEN /\ run' = Idle
          /\ last' = Call("runCurrentState", UNDEFINED, pre, step.result, r)
     ELSE /\ run' = step
          /\ UNCHANGED last
  /\ currentStateId' = pre
  /\ UNCHANGED <<flow, project, ui, editor, app, kit>>

\* a step of runCurrentState: it completes, or stays suspended at an await
Proceed(r, pre, step) ==
  /\ IF step.pc = "done"
     THEN /\ run' = Idle
          /\ last' = Call("runCurrentState", UNDEFINED, pre, step.result, r)
     ELSE /\ run' = step
          /\ UNCHANGED last
  /\ UNCHANGED <<flow, project, currentStateId, ui, editor, app, kit>>

\* the call of runCurrentState; FlowRunnerUI disables its Run button while a
\* run is in flight, so one invocation is in flight at a time
RunCurrentState ==
  /\ run.pc = "idle"
  /\ Proceed(NoCalls, currentStateId, runToStoreFetch)

\* runCurrentState resuming with the state of the position it finds, not the
\* one it looked up at line 52
StoreFetchSettles_RereadsState(fetched) ==
  /\ run.pc = "awaitStore"
  /\ LET state == IF getCurrentState # None THEN getCurrentState[1] ELSE run.state
     IN  Proceed([run EXCEPT !.fetched = Some(fetched)], run.pre,
                 afterStoreFetch([run EXCEPT !.state = state], fetched))

\* docFlowKit.getDocument settles and runCurrentState resumes
StoreFetchSettles(fetched) ==
  /\ run.pc = "awaitStore"
  /\ Proceed([run EXCEPT !.fetched = Some(fetched)], run.pre,
             afterStoreFetch(run, fetched))

\* llmService.callLLM settles and runCurrentState resumes
CallLLMSettles(net) ==
  /\ run.pc = "awaitLLM"
  /\ LET response == callLLM(run.llmService, run.processedPrompt, run.llmSettings, net)
     IN  Proceed(run, run.pre, afterCallLLM(run, response))

Next ==
  \/ \E stateId \in StateIdArgs : SetStartState(stateId)
  \/ \E edgeId \in EdgeIdArgs : TransitionTo(edgeId)
  \/ Reset
  \/ GetCurrentState
  \/ GetCurrentStateId
  \/ GetAvailableTransitions
  \/ RunCurrentState
  \/ \E fetched \in GetDocumentOutcomes : StoreFetchSettles(fetched)
  \/ \E net \in FetchOutcomes : CallLLMSettles(net)

Spec == Init /\ [][Next]_vars

----------------------------------------------------------------------------
(* processPromptTemplate on its own: it is applied to templates of at most  *)
(* MaxTemplateLen pieces and to labels, type tags and titles that are plain *)
(* text, a placeholder or a replacement pattern.                            *)

\* the longest template, in pieces
MaxTemplateLen == 2

TemplatePieces ==
  {"{stateName}", "{stateType}", "{flowName}", "{input}", "{foo}", "some text"}

Templates == UNION { [1..n -> TemplatePieces] : n \in 0..MaxTemplateLen }

\* what a user can type as a label or a title (FlowManager's text fields)
VariableValues == {"Start", "{stateType}", "{flowName}", "{input}", "$&"}

EmptyFlow ==
  [docId |-> "flow1", docType |-> "Flow", title |-> "Demo",
   content |-> [nodes |-> <<>>, edges |-> <<>>]]

\* a runner about to render: the template of the fetched agent, the label and
\* the type tag of the current state, and the title of the flow
Rendering(template, stateName, stateType, flowName) ==
  [pc |-> "render", template |-> template, stateName |-> stateName,
   stateType |-> stateType, flowName |-> flowName]

InitRender ==
  /\ flow = EmptyFlow
  /\ project = None
  /\ currentStateId = NULL
  /\ run \in { Rendering(template, stateName, stateType, flowName) :
                 template \in Templates,
                 stateName \in VariableValues,
                 stateType \in VariableValues,
                 flowName \in VariableValues }
  /\ last = Call("constructor", UNDEFINED, NULL, Returned(UNDEFINED), NoCalls)
  /\ ComponentsAsConstructed

\* the call of lines 78-82
ProcessPromptTemplate ==
  /\ run.pc = "render"
  /\ last' = Call("processPromptTemplate",
                  [template |-> run.template, stateName |-> run.stateName,
                   stateType |-> run.stateType, flowName |-> run.flowName],
                  NULL,
                  Returned(processPromptTemplate(run.template,
                             << <<"stateName", run.stateName>>,
                                <<"stateType", run.stateType>>,
                                <<"flowName", run.flowName>> >>)),
                  NoCalls)
  /\ run' = Idle
  /\ UNCHANGED <<flow, project, currentStateId, ui, editor, app, kit>>

NextRender == ProcessPromptTemplate

SpecRender == InitRender /\ [][NextRender]_vars

----------------------------------------------------------------------------
(* LLMService.ts on its own: a caller selects the client for its settings   *)
(* and calls it, as lines 88-89 of FlowRunner.ts do, for every provider     *)
(* identifier, credential and endpoint below and every outcome of the       *)
(* network call.                                                            *)

Providers == {"ollama", "azureOpenAI", "dummy", "", UNDEFINED, "Ollama"}

ApiKeys == {UNDEFINED, "", "key"}

ApiEndpoints == {UNDEFINED, "", "https://azure.example"}

SettingsOfClients ==
  { LLMSettings(provider, apiKey, apiEndpoint) :
      provider \in Providers, apiKey \in ApiKeys, apiEndpoint \in ApiEndpoints }

PromptOfClients == <<"Analyze ", "Start">>

\* a completed call of LLMService.ts and the fetch calls it made
ClientCall(op, settings, net, result, fetches) ==
  [op |-> op, settings |-> settings, net |-> net, outcome |-> result.outcome,
   value |-> result.value, fetches |-> fetches]

InitLLM ==
  /\ flow = EmptyFlow
  /\ project = None
  /\ currentStateId = NULL
  /\ run \in { [pc |-> "select", llmSettings |-> settings, net |-> net] :
                 settings \in SettingsOfClients, net \in FetchOutcomes }
  /\ last = ClientCall("constructor", DEFAULT_LLM_SETTINGS, "ok",
                       Returned(UNDEFINED), 0)
  /\ ComponentsAsConstructed

GetLLMService ==
  /\ run.pc = "select"
  /\ LET llmService == getLLMService(run.llmSettings)
     IN  /\ run' = [pc |-> "call", llmSettings |-> run.llmSettings,
                    net |-> run.net, llmService |-> llmService]
         /\ last' = ClientCall("getLLMService", run.llmSettings, run.net,
                               Returned(llmService), 0)
  /\ UNCHANGED <<flow, project, currentStateId, ui, editor, app, kit>>

CallLLM ==
  /\ run.pc = "call"
  /\ last' = ClientCall(run.llmService, run.llmSettings, run.net,
                        callLLM(run.llmService, PromptOfClients, run.llmSettings, run.net),
                        fetchCalls(run.llmService, run.llmSettings, run.net))
  /\ run' = Idle
  /\ UNCHANGED <<flow, project, currentStateId, ui, editor, app, kit>>

NextLLM == GetLLMService \/ CallLLM

SpecLLM == InitLLM /\ [][NextLLM]_vars

----------------------------------------------------------------------------
(* FlowRunnerUI (src/unnamed/part_003).  The component holds a runner that  *)
(* it builds without a project, its own copy of the position, the isRunning *)
(* flag and the log, of which the model keeps the entry added last.  Each   *)
(* handler is one action; handleRunState is split at its await, and its     *)
(* finally block runs in the step in which the run settles.                 *)

\* useState(() => new FlowRunner(flowDoc)) and the initial state
InitUI ==
  /\ flow \in FlowDocs
  /\ project = None
  /\ currentStateId = NULL
  /\ run = Idle
  /\ last = Call("constructor", UNDEFINED, NULL, Returned(UNDEFINED), NoCalls)
  /\ ComponentsAsConstructed

\* handleTransition with the position of the interface set before the runner
\* is asked
HandleTransition_SetsTargetFirst(edgeId) ==
  LET done == transitionTo(edgeId)
      edge == FindById(edges, edgeId)
  IN  /\ currentStateId' = done.position
      /\ last' = Call("transitionTo", edgeId, currentStateId, done.result, NoCalls)
      /\ ui' = [ui EXCEPT !.currentStateId = IF edge # None THEN edge[1].target ELSE @,
                          !.log = IF done.result.outcome = "returned"
                                  THEN "Now at state" ELSE "Error transitioning"]
      /\ UNCHANGED <<flow, project, run, editor, app, kit>>

HandleSetStartState(stateId) ==
  LET done == setStartState(stateId)
  IN  /\ currentStateId' = done.position
      /\ last' = Call("setStartState", stateId, currentStateId, done.result, NoCalls)
      /\ ui' = IF done.result.outcome = "returned"
               THEN [ui EXCEPT !.currentStateId = stateId, !.log = "Starting flow"]
               ELSE [ui EXCEPT !.log = "Error setting start state"]
      /\ UNCHANGED <<flow, project, run, editor, app, kit>>

HandleTransition(edgeId) ==
  LET done == transitionTo(edgeId)
  IN  /\ currentStateId' = done.position
      /\ last' = Call("transitionTo", edgeId, currentStateId, done.result, NoCalls)
      /\ ui' = IF done.result.outcome = "returned"
               THEN [ui EXCEPT !.currentStateId = done.position, !.log = "Now at state"]
               ELSE [ui EXCEPT !.log = "Error transitioning"]
      /\ UNCHANGED <<flow, project, run, editor, app, kit>>

HandleReset ==
  /\ currentStateId' = reset
  /\ last' = Call("reset", UNDEFINED, currentStateId, Returned(UNDEFINED), NoCalls)
  /\ ui' = [ui EXCEPT !.currentStateId = NULL, !.log = "Flow reset"]
  /\ UNCHANGED <<flow, project, run, editor, app, kit>>

\* handleRunState from the await of line 54 on: the run stays suspended, or
\* it settles and the handler logs and runs its finally block
AwaitRun(r, pre, step) ==
  /\ IF step.pc = "done"
     THEN /\ run' = Idle
          /\ last' = Call("runCurrentState", UNDEFINED, pre, step.result, r)
          /\ ui' = [ui EXCEPT !.isRunning = FALSE,
                              !.log = IF step.result.outcome = "threw"
                                      THEN "Error running state" ELSE "result"]
     ELSE /\ run' = step
          /\ ui' = [ui EXCEPT !.isRunning = TRUE, !.log = "Running agent..."]
          /\ UNCHANGED last
  /\ UNCHANGED <<flow, project, currentStateId, editor, app, kit>>

\* handleRunState; the Run button is disabled while isRunning
HandleRunState ==
  /\ ~ui.isRunning
  /\ run.pc = "idle"
  /\ IF Falsy(ui.currentStateId)
     THEN /\ ui' = [ui EXCEPT !.log = "No current state selected."]
          /\ UNCHANGED <<flow, project, currentStateId, run, last, editor, app, kit>>
     ELSE AwaitRun(NoCalls, currentStateId, runToStoreFetch)

\* docFlowKit.getDocument settles and handleRunState resumes; the runner has
\* no project, so that the run ends at line 85 and reaches no client
HandleRunStateResumes(fetched) ==
  /\ run.pc = "awaitStore"
  /\ AwaitRun([run EXCEPT !.fetched = Some(fetched)], run.pre,
              afterStoreFetch(run, fetched))

NextUI ==
  \/ \E stateId \in StateIdArgs : HandleSetStartState(stateId)
  \/ \E edgeId \in EdgeIdArgs : HandleTransition(edgeId)
  \/ HandleReset
  \/ HandleRunState
  \/ \E fetched \in GetDocumentOutcomes : HandleRunStateResumes(fetched)

SpecUI == InitUI /\ [][NextUI]_vars

----------------------------------------------------------------------------
(* The flow editor (FlowManager, src/unnamed/part_000) and the diagram      *)
(* editor (DiagramManager.tsx).  Their handlers for nodes, edges and the    *)
(* selection of a new edge are the same code under different names, and are *)
(* modelled once.  An editor is opened on a document whose edges join       *)
(* distinct nodes of the document.                                          *)

\* the identifiers crypto.randomUUID() hands out to one editor
MaxCreated == 3

GraphNode(id) == [id |-> id, type |-> "Normal", label |-> "New Node"]

GraphEdge(id, source, target) == [id |-> id, source |-> source, target |-> target]

\* the documents an editor is opened on
GraphsOpened ==
  { EditorOn(<<>>, <<>>),
    EditorOn(<<GraphNode("a")>>, <<>>),
    EditorOn(<<GraphNode("a"), GraphNode("b")>>, <<>>),
    EditorOn(<<GraphNode("a"), GraphNode("b")>>, <<GraphEdge("e", "a", "b")>>) }

InitEditor ==
  /\ flow = EmptyFlow
  /\ project = None
  /\ currentStateId = NULL
  /\ run = Idle
  /\ last = Call("constructor", UNDEFINED, NULL, Returned(UNDEFINED), NoCalls)
  /\ ui = UIMounted
  /\ editor \in GraphsOpened
  /\ app = AppMounted
  /\ kit = KitConstructed

\* crypto.randomUUID(): an identifier that was not handed out before
randomUUID == "u" \o ToString(editor.created + 1)

\* the ids of the nodes the editor lists
NodeIdsListed == { editor.nodes[i].id : i \in 1..Len(editor.nodes) }

\* addState / addNode
AddNode ==
  /\ editor.created < MaxCreated
  /\ editor' = [editor EXCEPT !.nodes = Append(@, GraphNode(randomUUID)),
                              !.created = @ + 1]
  /\ UNCHANGED <<flow, project, currentStateId, run, last, ui, app, kit>>

\* removeState / removeNode, from the Remove button of a listed node
RemoveNode(nodeId) ==
  /\ nodeId \in NodeIdsListed
  /\ LET Kept(n) == n.id # nodeId
         Unrelated(e) == e.source # nodeId /\ e.target # nodeId
     IN  editor' = [editor EXCEPT !.nodes = SelectSeq(@, Kept),
                                 !.edges = SelectSeq(@, Unrelated)]
  /\ UNCHANGED <<flow, project, currentStateId, run, last, ui, app, kit>>

\* setSourceId from the source <select>: an option is "" or a listed node
SelectSource(value) ==
  /\ value \in NodeIdsListed \cup {""}
  /\ editor' = [editor EXCEPT !.sourceId = value]
  /\ UNCHANGED <<flow, project, currentStateId, run, last, ui, app, kit>>

\* setTargetId from the target <select>
SelectTarget(value) ==
  /\ value \in NodeIdsListed \cup {""}
  /\ editor' = [editor EXCEPT !.targetId = value]
  /\ UNCHANGED <<flow, project, currentStateId, run, last, ui, app, kit>>

\* addTransition / addEdge
AddEdge ==
  /\ editor.created < MaxCreated
  /\ IF Falsy(editor.sourceId) \/ Falsy(editor.targetId)
        \/ editor.sourceId = editor.targetId
     THEN UNCHANGED editor
     ELSE editor' = [editor EXCEPT
                      !.edges = Append(@, GraphEdge(randomUUID, editor.sourceId,
                                                    editor.targetId)),
                      !.sourceId = "",
                      !.targetId = "",
                      !.created = @ + 1]
  /\ UNCHANGED <<flow, project, currentStateId, run, last, ui, app, kit>>

\* removeTransition / removeEdge, from the Remove button of a listed edge
RemoveEdge(edgeId) ==
  /\ \E i \in 1..Len(editor.edges) : editor.edges[i].id = edgeId
  /\ LET Kept(e) == e.id # edgeId
     IN  editor' = [editor EXCEPT !.edges = SelectSeq(@, Kept)]
  /\ UNCHANGED <<flow, project, currentStateId, run, last, ui, app, kit>>

\* the identifiers an editor can hold
EditorIds == {"a", "b", "e"} \cup { "u" \o ToString(i) : i \in 1..MaxCreated }

NextEditor ==
  \/ AddNode
  \/ \E nodeId \in EditorIds : RemoveNode(nodeId)
  \/ \E value \in EditorIds \cup {""} : SelectSource(value)
  \/ \E value \in EditorIds \cup {""} : SelectTarget(value)
  \/ AddEdge
  \/ \E edgeId \in EditorIds : RemoveEdge(edgeId)

SpecEditor == InitEditor /\ [][NextEditor]_vars

----------------------------------------------------------------------------
(* App (src/App.tsx) with the ProjectProvider and the Document Store.  The  *)
(* model starts when the effect of lines 382-416 has initialized the store  *)
(* and loaded the project, here one that references a diagram and a flow.  *)
(* The asynchronous handlers are split at their awaits; a handler    *)
(* that is suspended is an element of app.pending, with the values its      *)
(* closure captured.                                                        *)

\* the handlers that are suspended at one time
MaxPending == 2

\* the documents one session creates
MaxCreatedDocs == 2

Doc(docId, docType, title) == [docId |-> docId, docType |-> docType, title |-> title]

\* the DocRef of a document (lines 91-95)
DocRef(doc) == Doc(doc.docId, doc.docType, doc.title)

StoredAtStart == { Doc("d1", "Diagram", "Untitled"), Doc("f1", "Flow", "Untitled") }

ReferencedAtStart == << Doc("d1", "Diagram", "Untitled"), Doc("f1", "Flow", "Untitled") >>

\* a handler suspended at an await: what it awaits, the document it is
\* about, and the documents list it will save
Pending(op, doc, documents) == [op |-> op, doc |-> doc, documents |-> documents]

\* db.put('documents', doc): the object store is keyed by docId
Put(documents, doc) == { d \in documents : d.docId # doc.docId } \cup {doc}

InitApp ==
  /\ flow = EmptyFlow
  /\ project = None
  /\ currentStateId = NULL
  /\ run = Idle
  /\ last = Call("constructor", UNDEFINED, NULL, Returned(UNDEFINED), NoCalls)
  /\ ui = UIMounted
  /\ editor = EditorOn(<<>>, <<>>)
  /\ app = [AppMounted EXCEPT !.documents = ReferencedAtStart]
  /\ kit = [db |-> "open", documents |-> StoredAtStart]

OutsideApp == <<flow, project, currentStateId, run, last, ui, editor>>

\* loadDiagram / loadFlow / loadAgent up to the await of getDocument, from
\* the button of a reference of that type in the project's list
LoadDocument(ref) ==
  /\ Cardinality(app.pending) < MaxPending
  /\ \E i \in 1..Len(app.documents) : app.documents[i] = ref
  /\ app' = [app EXCEPT
              !.active = [t \in DocTypes |-> IF t = ref.docType THEN @[t] ELSE None],
              !.pending = @ \cup {Pending("getDocument", ref, <<>>)}]
  /\ UNCHANGED kit
  /\ UNCHANGED OutsideApp

\* getDocument settles and the load resumes
GetDocumentSettles(p) ==
  /\ p \in app.pending
  /\ p.op = "getDocument"
  /\ LET found == { d \in kit.documents : d.docId = p.doc.docId }
     IN  app' = [app EXCEPT
                  !.pending = @ \ {p},
                  !.active = IF \E d \in found : d.docType = p.doc.docType
                             THEN [@ EXCEPT ![p.doc.docType] =
                                     Some(CHOOSE d \in found : TRUE)]
                             ELSE @]
  /\ UNCHANGED kit
  /\ UNCHANGED OutsideApp

\* closeActiveDiagram / closeActiveFlow / closeActiveAgent
CloseActive(docType) ==
  /\ app.active[docType] # None
  /\ app' = [app EXCEPT !.active[docType] = None]
  /\ UNCHANGED kit
  /\ UNCHANGED OutsideApp

\* createNewDiagram / createNewFlow / createNewAgent up to the await of
\* createDocument; project is the one of the render the handler closes over
CreateNewDocument(docType) ==
  /\ Cardinality(app.pending) < MaxPending
  /\ app.created < MaxCreatedDocs
  /\ LET doc == Doc("u" \o ToString(app.created + 1), docType, "Untitled")
     IN  app' = [app EXCEPT
                  !.created = @ + 1,
                  !.pending = @ \cup {Pending("createDocument", doc, app.documents)}]
  /\ UNCHANGED kit
  /\ UNCHANGED OutsideApp

\* createDocument settles: the put succeeded or was rejected.  On success
\* the handler calls saveProject with the list it captured and the new
\* reference, and is suspended there; on failure its catch block ends it.
CreateDocumentSettles(p, ok) ==
  /\ p \in app.pending
  /\ p.op = "createDocument"
  /\ IF ok
     THEN /\ kit' = [kit EXCEPT !.documents = Put(@, p.doc)]
          /\ app' = [app EXCEPT !.pending = (@ \ {p}) \cup
                       {Pending("saveProject", p.doc, Append(p.documents, DocRef(p.doc)))}]
     ELSE /\ app' = [app EXCEPT !.pending = @ \ {p}]
          /\ UNCHANGED kit
  /\ UNCHANGED OutsideApp

\* handleDiagramUpdate / handleFlowUpdate / handleAgentUpdate: the editor of
\* the active document has stored it under a new title and calls onUpdate
HandleDocumentUpdate(docType, title) ==
  /\ Cardinality(app.pending) < MaxPending
  /\ app.active[docType] # None
  /\ LET activeDoc == app.active[docType][1]
         updatedDoc == [activeDoc EXCEPT !.title = title]
         updatedDocuments ==
           [i \in 1..Len(app.documents) |->
              IF app.documents[i].docId = updatedDoc.docId
              THEN [app.documents[i] EXCEPT !.title = title]
              ELSE app.documents[i]]
     IN  /\ title # activeDoc.title
         /\ kit' = [kit EXCEPT !.documents = Put(@, updatedDoc)]
         /\ app' = [app EXCEPT
                      !.active[docType] = Some(updatedDoc),
                      !.pending = @ \cup
                        {Pending("saveProject", updatedDoc, updatedDocuments)}]
  /\ UNCHANGED OutsideApp

\* saveProject (ProjectContext.tsx:44-47) settles: updateDocument succeeded
\* and setProject takes the saved project, or it was rejected
SaveProjectSettles(p, ok) ==
  /\ p \in app.pending
  /\ p.op = "saveProject"
  /\ app' = [app EXCEPT !.pending = @ \ {p},
                        !.documents = IF ok THEN p.documents ELSE @]
  /\ UNCHANGED kit
  /\ UNCHANGED OutsideApp

\* the title an editor gives a document
Titles == {"Renamed"}

NextApp ==
  \/ \E i \in 1..Len(app.documents) : LoadDocument(app.documents[i])
  \/ \E p \in app.pending : GetDocumentSettles(p)
  \/ \E docType \in DocTypes : CloseActive(docType)
  \/ \E docType \in DocTypes : CreateNewDocument(docType)
  \/ \E p \in app.pending, ok \in BOOLEAN : CreateDocumentSettles(p, ok)
  \/ \E docType \in DocTypes, title \in Titles : HandleDocumentUpdate(docType, title)
  \/ \E p \in app.pending, ok \in BOOLEAN : SaveProjectSettles(p, ok)

SpecApp == InitApp /\ [][NextApp]_vars

----------------------------------------------------------------------------
(* DocFlowKit (src/unnamed/part_000, lines 7-73) on its own.  The requests  *)
(* of one connection to the object store take effect in the order they are  *)
(* made, so that each method is one action.  kit.written keeps, for each    *)
(* id, the document written last under it (None after a delete): a history  *)
(* that the contract is stated over.                                        *)

\* the identifiers crypto.randomUUID() hands out to createDocument
MaxGenerated == 2

\* the ids a caller passes: two ids, and "" for a document without one
CallerIds == {"x", "y"}

KitIds == CallerIds \cup { "k" \o ToString(i) : i \in 1..(MaxGenerated + 1) }

\* the documents a caller passes to createDocument and updateDocument
KitDocs ==
  { Doc(docId, "Diagram", title) : docId \in CallerIds \cup {""}, title \in {"v1", "v2"} }

\* a completed call of DocFlowKit: its argument as passed, the argument as
\* the call left it, and its outcome
KitCall(op, arg, argAfter, result) ==
  [op |-> op, arg |-> arg, argAfter |-> argAfter, outcome |-> result.outcome,
   value |-> result.value]

InitKit ==
  /\ flow = EmptyFlow
  /\ project = None
  /\ currentStateId = NULL
  /\ run = Idle
  /\ last = KitCall("constructor", UNDEFINED, UNDEFINED, Returned(UNDEFINED))
  /\ ui = UIMounted
  /\ editor = EditorOn(<<>>, <<>>)
  /\ app = AppMounted
  /\ kit = [db |-> NULL, documents |-> {}, created |-> 0,
            written |-> [id \in KitIds |-> None]]

OutsideKit == <<flow, project, currentStateId, run, ui, editor, app>>

\* initialize(): openDB resolves and db is assigned
Initialize ==
  /\ kit' = [kit EXCEPT !.db = "open"]
  /\ last' = KitCall("initialize", UNDEFINED, UNDEFINED, Returned(UNDEFINED))
  /\ UNCHANGED OutsideKit

\* createDocument(doc)
CreateDocument(doc) ==
  /\ Falsy(doc.docId) => kit.created < MaxGenerated
  /\ LET identified == IF Falsy(doc.docId)
                       THEN [doc EXCEPT !.docId = "k" \o ToString(kit.created + 1)]
                       ELSE doc
         created == IF Falsy(doc.docId) THEN kit.created + 1 ELSE kit.created
     IN  IF Falsy(kit.db)
         THEN /\ kit' = [kit EXCEPT !.created = created]
              /\ last' = KitCall("createDocument", doc, identified, Threw(NotInitialized))
         ELSE /\ kit' = [kit EXCEPT !.created = created,
                                    !.documents = Put(@, identified),
                                    !.written[identified.docId] = Some(identified)]
              /\ last' = KitCall("createDocument", doc, identified, Returned(UNDEFINED))
  /\ UNCHANGED OutsideKit

\* getDocument(docId)
GetDocument(docId) ==
  /\ LET found == { d \in kit.documents : d.docId = docId }
     IN  last' = KitCall("getDocument", docId, docId,
                         IF Falsy(kit.db) THEN Threw(NotInitialized)
                         ELSE IF found = {} THEN Returned(None)
                         ELSE Returned(Some(CHOOSE d \in found : TRUE)))
  /\ UNCHANGED kit
  /\ UNCHANGED OutsideKit

\* updateDocument(doc)
UpdateDocument(doc) ==
  /\ IF Falsy(kit.db)
     THEN /\ last' = KitCall("updateDocument", doc, doc, Threw(NotInitialized))
          /\ UNCHANGED kit
     ELSE IF Falsy(doc.docId)
     THEN /\ last' = KitCall("updateDocument", doc, doc,
                             Threw("Document must have a docId for update"))
          /\ UNCHANGED kit
     ELSE /\ last' = KitCall("updateDocument", doc, doc, Returned(UNDEFINED))
          /\ kit' = [kit EXCEPT !.documents = Put(@, doc),
                                !.written[doc.docId] = Some(doc)]
  /\ UNCHANGED OutsideKit

\* deleteDocument(docId)
DeleteDocument(docId) ==
  /\ IF Falsy(kit.db)
     THEN /\ last' = KitCall("deleteDocument", docId, docId, Threw(NotInitialized))
          /\ UNCHANGED kit
     ELSE /\ last' = KitCall("deleteDocument", docId, docId, Returned(UNDEFINED))
          /\ kit' = [kit EXCEPT !.documents = { d \in @ : d.docId # docId },
                                !.written[docId] = None]
  /\ UNCHANGED OutsideKit

\* listDocuments()
ListDocuments ==
  /\ last' = KitCall("listDocuments", UNDEFINED, UNDEFINED,
                     IF Falsy(kit.db) THEN Threw(NotInitialized)
                     ELSE Returned(kit.documents))
  /\ UNCHANGED kit
  /\ UNCHANGED OutsideKit

NextKit ==
  \/ Initialize
  \/ \E doc \in KitDocs : CreateDocument(doc)
  \/ \E docId \in KitIds : GetDocument(docId)
  \/ \E doc \in KitDocs : UpdateDocument(doc)
  \/ \E docId \in KitIds : DeleteDocument(docId)
  \/ ListDocuments

SpecKit == InitKit /\ [][NextKit]_vars

----------------------------------------------------------------------------
(* The contract of the runner.  The properties speak of the flow through    *)
(* the definitions below, not through the methods.                          *)

\* the states of the flow whose identifier is id
StatesWithId(id) == { nodes[i] : i \in { j \in 1..Len(nodes) : nodes[j].id = id } }

\* the transitions of the flow whose identifier is id
TransitionsWithId(id) == { edges[i] : i \in { j \in 1..Len(edges) : edges[j].id = id } }

PositionIsSet(pos) == pos # NULL

Failed(call, message) == call.outcome = "threw" /\ call.value = message

\* C1: transitionTo(t), called at a set position that is not the source of
\* the transition with id t, fails with the illegal-transition error and
\* leaves the position as it was.
C1_IllegalTransitionRejected ==
  (/\ last.op = "transitionTo"
   /\ PositionIsSet(last.pre)
   /\ \E t \in TransitionsWithId(last.arg) : t.source # last.pre)
  => /\ Failed(last, IllegalTransition)
     /\ currentStateId = last.pre

\* transitionTo was refused at a position that has a transition of its own
C1_Witness ==
  /\ last.op = "transitionTo"
  /\ Failed(last, IllegalTransition)
  /\ \E t \in TransitionsWithId(last.arg) : t.source # last.pre
  /\ \E i \in 1..Len(edges) : edges[i].source = last.pre
  /\ currentStateId = last.pre

\* C2: transitionTo(t), called at the source of the transition with id t,
\* moves the position to its target and returns the label of the state with
\* that id, or "Unknown State" when the flow has no such state.
C2_TransitionApplied ==
  \A t \in TransitionsWithId(last.arg) :
    (last.op = "transitionTo" /\ PositionIsSet(last.pre) /\ t.source = last.pre)
    => /\ last.outcome = "returned"
       /\ currentStateId = t.target
       /\ \A n \in StatesWithId(t.target) : last.value = n.label
       /\ StatesWithId(t.target) = {} => last.value = "Unknown State"

\* a transition to another state was applied and that state's label returned
C2_Witness ==
  /\ last.op = "transitionTo"
  /\ last.outcome = "returned"
  /\ currentStateId # last.pre
  /\ \E n \in StatesWithId(currentStateId) : last.value = n.label

\* C3 as claimed: transitionTo fails with the transition-not-found error both
\* when no position is set and when no transition has the identifier, and
\* leaves the position as it was.
C3_Original ==
  (/\ last.op = "transitionTo"
   /\ (~PositionIsSet(last.pre) \/ TransitionsWithId(last.arg) = {}))
  => /\ Failed(last, TransitionNotFound)
     /\ currentStateId = last.pre

\* C3 as amended: transitionTo fails with the no-current-state error when no
\* position is set, and with the transition-not-found error when a position
\* is set and no transition has the identifier; either way the position is
\* left as it was.
C3_TransitionNotFound ==
  /\ (last.op = "transitionTo" /\ ~PositionIsSet(last.pre))
     => /\ Failed(last, NoCurrentState)
        /\ currentStateId = NULL
  /\ (last.op = "transitionTo" /\ PositionIsSet(last.pre)
        /\ TransitionsWithId(last.arg) = {})
     => /\ Failed(last, TransitionNotFound)
        /\ currentStateId = last.pre

\* transitionTo failed with no position set though the flow has the transition
C3_Witness ==
  /\ last.op = "transitionTo"
  /\ last.pre = NULL
  /\ TransitionsWithId(last.arg) # {}
  /\ Failed(last, NoCurrentState)

\* C4: setStartState(s) for the id s of a state of the flow succeeds from any
\* position and getCurrentStateId() then returns s.
C4_StartStateSet ==
  (last.op = "setStartState" /\ StatesWithId(last.arg) # {})
  => /\ last.outcome = "returned"
     /\ getCurrentStateId = last.arg

\* the position was re-seeded from a state that has no transition to the new one
C4_Witness ==
  /\ last.op = "setStartState"
  /\ last.outcome = "returned"
  /\ StatesWithId(last.pre) # {}
  /\ last.pre # last.arg
  /\ ~\E i \in 1..Len(edges) : edges[i].source = last.pre /\ edges[i].target = last.arg
  /\ getCurrentStateId = last.arg

\* C5: setStartState(x) for an id x of no state of the flow fails with the
\* state-not-found error and leaves the position as it was.
C5_UnknownStartStateRejected ==
  (last.op = "setStartState" /\ StatesWithId(last.arg) = {})
  => /\ Failed(last, StateNotFound)
     /\ currentStateId = last.pre

\* setStartState was refused at a set position
C5_Witness ==
  /\ last.op = "setStartState"
  /\ Failed(last, StateNotFound)
  /\ StatesWithId(last.pre) # {}
  /\ currentStateId = last.pre

\* the indices of the transitions that leave the state s, in stored order
Outgoing(s) == { i \in 1..Len(edges) : edges[i].source = s }

\* seq lists edges[i] for the i of indices, in increasing order of i
ListsInStoredOrder(seq, indices) ==
  /\ Len(seq) = Cardinality(indices)
  /\ \A i \in indices : seq[Cardinality({ j \in indices : j <= i })] = edges[i]

\* C6: at a position that is the id of a state of the flow,
\* getAvailableTransitions() returns exactly the transitions whose source is
\* that state, in the order the flow stores them (none if it has none); with
\* no position set it returns the empty list.
C6_AvailableTransitions ==
  /\ currentStateId = NULL => getAvailableTransitions = <<>>
  /\ StatesWithId(currentStateId) # {}
       => ListsInStoredOrder(getAvailableTransitions, Outgoing(currentStateId))
  /\ last.op = "getAvailableTransitions"
       => last.outcome = "returned" /\ last.value = getAvailableTransitions

\* the call returned the second stored transition and not the first
C6_Witness ==
  /\ last.op = "getAvailableTransitions"
  /\ StatesWithId(currentStateId) # {}
  /\ Len(edges) = 2
  /\ Outgoing(currentStateId) = {2}
  /\ edges[1].target = currentStateId
  /\ last.value = <<edges[2]>>

\* C7: reset() sets the position to null from any position, after which
\* getAvailableTransitions() is empty and getCurrentState() is null, and it
\* changes neither the flow nor the project (nor a run in flight).
C7_ResetClearsPosition ==
  [][Reset => /\ currentStateId' = NULL
              /\ getAvailableTransitions' = <<>>
              /\ getCurrentState' = None
              /\ flow' = flow /\ project' = project /\ run' = run]_vars

\* reset was called at a state that has transitions, while a run was in flight
C7_Witness ==
  /\ last.op = "reset"
  /\ Outgoing(last.pre) # {}
  /\ run.pc # "idle"
  /\ currentStateId = NULL

\* the message runCurrentState returns for the state n that has no agent
NoAgentAssigned(n) ==
  <<"State \"", n.label, "\" (", n.type, ") has no agent assigned, so nothing to run.">>

\* C8: runCurrentState() at a state without an agent reference returns the
\* no-agent-assigned message and calls neither the Document Store nor a
\* Generative-Text Client.
C8_NoAgentNoCalls ==
  \A n \in StatesWithId(last.pre) :
    (last.op = "runCurrentState" /\ n.agentId = UNDEFINED)
    => /\ last.outcome = "returned"
       /\ last.value = NoAgentAssigned(n)
       /\ last.storeCalls = 0
       /\ last.llmCalls = 0
       /\ last.fetched = None

\* a run completed at a state without an agent, in a flow that has agents
C8_Witness ==
  /\ last.op = "runCurrentState"
  /\ \E n \in StatesWithId(last.pre) :
       n.agentId = UNDEFINED /\ last.value = NoAgentAssigned(n)
  /\ \E i \in 1..Len(nodes) : nodes[i].agentId # UNDEFINED

\* the run at last.pre fetched a document that is null or is no Agent
FetchedNoAgent ==
  /\ last.op = "runCurrentState"
  /\ last.fetched # None
  /\ last.fetched[1].outcome = "returned"
  /\ \A d \in { last.fetched[1].value[i] : i \in 1..Len(last.fetched[1].value) } :
       d.docType # "Agent"

\* C9: runCurrentState() whose agent id resolves to no document, or to a
\* document that is no Agent, returns an error-describing string, does not
\* throw, and calls no Generative-Text Client.
C9_UnresolvedAgentReturnsError ==
  FetchedNoAgent
  => /\ last.outcome = "returned"
     /\ \E n \in StatesWithId(last.pre) :
          last.value \in
            { <<"Error: Agent with id=", n.agentId, " not found.">>,
              <<"Error: Document with id=", n.agentId, " is not an Agent.">> }
     /\ last.fetched[1].value = None <=> last.value[3] = " not found."
     /\ last.llmCalls = 0
     /\ last.storeCalls = 1

\* the store returned a document of another type and the run reported it
C9_Witness ==
  /\ FetchedNoAgent
  /\ last.fetched[1].value # None
  /\ last.value[3] = " is not an Agent."

\* the run at last.pre was at an existing state that has an agent reference
RanAgentState ==
  /\ last.op = "runCurrentState"
  /\ \E n \in StatesWithId(last.pre) : n.agentId # UNDEFINED

\* C10: runCurrentState() at an existing state that has an agent reference
\* completes by returning a string whatever the Document Store and the client
\* do; it throws only when no position is set or the position is the id of
\* no state of the flow.
C10_ErrorChannelsDisjoint ==
  /\ RanAgentState => last.outcome = "returned"
  /\ (last.op = "runCurrentState" /\ last.outcome = "threw")
     => \/ last.pre = NULL /\ last.value = NoCurrentState
        \/ /\ last.pre # NULL /\ StatesWithId(last.pre) = {}
           /\ last.value = StateNotFound

\* the store itself failed and the run returned that failure as a string
C10_Witness ==
  /\ RanAgentState
  /\ last.fetched = Some(Threw(NotInitialized))
  /\ last.value = <<"Error running agent: ", NotInitialized>>

\* C11: runCurrentState() with no position set fails with the
\* no-current-state error, calls neither the Document Store nor a client, and
\* leaves the position null.
C11_RunWithoutPosition ==
  (last.op = "runCurrentState" /\ last.pre = NULL)
  => /\ Failed(last, NoCurrentState)
     /\ last.storeCalls = 0
     /\ last.llmCalls = 0
     /\ last.fetched = None
     /\ currentStateId = NULL
     /\ run = Idle

\* a run was refused for want of a position, in a flow that has an agent state
C11_Witness ==
  /\ last.op = "runCurrentState"
  /\ last.pre = NULL
  /\ Failed(last, NoCurrentState)
  /\ \E i \in 1..Len(nodes) : nodes[i].agentId # UNDEFINED

\* a step of runCurrentState (the run in flight changes, or the step leaves
\* runCurrentState as the last completed call) or of one of the three queries
Observes ==
  \/ run' # run
  \/ last'.op \in {"runCurrentState", "getCurrentState", "getCurrentStateId",
                   "getAvailableTransitions"}

\* C12: runCurrentState(), getCurrentState(), getCurrentStateId() and
\* getAvailableTransitions() leave the position, the flow and the project as
\* they were, whether they return a value, return an error string or throw.
C12_ObservationsKeepPosition ==
  [][Observes => /\ currentStateId' = currentStateId
                 /\ flow' = flow
                 /\ project' = project]_vars

\* a run that went through both awaits completed at the position it began at
C12_Witness ==
  /\ last.op = "runCurrentState"
  /\ last.llmCalls = 1
  /\ last.outcome = "returned"
  /\ currentStateId = last.pre

\* the run that completed last had its agent resolved by the Document Store
AgentResolved ==
  /\ last.op = "runCurrentState"
  /\ last.fetched # None
  /\ last.fetched[1].outcome = "returned"
  /\ last.fetched[1].value # None
  /\ last.fetched[1].value[1].docType = "Agent"

\* the prompt that the template of AgentDoc renders to for the state n
RenderedFor(n) ==
  <<"Analyze ", n.label, " in ", flow.title, ": ", InputFallback>>

\* the string runCurrentState composes of a title, a prompt and a response
Composite(title, prompt, response) ==
  <<"[Agent: ", title, "]\n\nPrompt:\n">> \o prompt \o <<"\n\nResponse:\n">> \o response

\* the response of the simulated client to a prompt
Simulated(prompt) ==
  <<"[SIMULATED LLM RESPONSE] The prompt you provided was: ">> \o prompt

\* C13 as claimed: a run whose agent resolves fetches from the Document Store
\* once, then invokes the selected client exactly once with the rendered
\* prompt, and returns a composite of the agent's title, the rendered prompt
\* and the response or the error text of the client.
C13_Original ==
  AgentResolved
  => /\ last.storeCalls = 1
     /\ last.llmCalls = 1
     /\ last.outcome = "returned"
     /\ \E n \in StatesWithId(last.pre) :
          /\ Len(last.value) > 10
          /\ SubSeq(last.value, 1, 10)
               = Composite(AgentDoc.title, RenderedFor(n), <<>>)

\* C16 as claimed: a run whose agent resolves, on a runner whose project
\* carries no provider configuration or that was built without a project,
\* goes through the simulated client and returns the composite result.
C16_Original ==
  (/\ AgentResolved
   /\ \A p \in { project[i] : i \in 1..Len(project) } : p.content.llmSettings = None)
  => /\ last.outcome = "returned"
     /\ last.llmCalls = 1
     /\ \E n \in StatesWithId(last.pre) :
          last.value = Composite(AgentDoc.title, RenderedFor(n),
                                 Simulated(RenderedFor(n)))

\* what C13 and C16 claim does hold of every runner built with a project
C13_C16_WithProject == project # None => C13_Original /\ C16_Original

\* the last call was a transitionTo that moved the position to an id that no
\* state of the flow has
MovedToDanglingTarget ==
  /\ last.op = "transitionTo"
  /\ last.outcome = "returned"
  /\ StatesWithId(currentStateId) = {}

\* C20 as claimed: after a transitionTo whose target is the id of no state,
\* the position is that id, getCurrentState() is null and
\* getAvailableTransitions() is empty, in every flow.
C20_Original ==
  MovedToDanglingTarget
  => /\ \E t \in TransitionsWithId(last.arg) : currentStateId = t.target
     /\ getCurrentState = None
     /\ getAvailableTransitions = <<>>

\* C20 as amended: after a transitionTo whose target is the id of no state,
\* the position is that id, getCurrentState() is null, "Unknown State" was
\* returned, and getAvailableTransitions() lists exactly the transitions
\* whose source is that id, in stored order: it is empty only when the flow
\* has no such transition.
C20_DanglingPosition ==
  MovedToDanglingTarget
  => /\ \E t \in TransitionsWithId(last.arg) : currentStateId = t.target
     /\ currentStateId # NULL
     /\ last.value = "Unknown State"
     /\ getCurrentState = None
     /\ ListsInStoredOrder(getAvailableTransitions, Outgoing(currentStateId))

\* the position is a dangling id that a transition of the flow leaves, and
\* that transition is listed as available
C20_Witness ==
  /\ MovedToDanglingTarget
  /\ last.pre # currentStateId
  /\ Outgoing(currentStateId) # {}
  /\ getAvailableTransitions # <<>>

----------------------------------------------------------------------------
(* The contract of prompt rendering, over SpecRender.                       *)

Rendered == last.op = "processPromptTemplate"

\* the value supplied for the placeholder piece, if it is one of the three
SuppliedFor(piece) ==
  CASE piece = "{stateName}" -> Some(last.arg.stateName)
    [] piece = "{stateType}" -> Some(last.arg.stateType)
    [] piece = "{flowName}" -> Some(last.arg.flowName)
    [] OTHER -> None

HoldsPlaceholder(value) ==
  value \in {"{stateName}", "{stateType}", "{flowName}", "{input}"}

\* C14 as claimed: a supplied value that is itself a placeholder appears
\* verbatim in the rendered prompt wherever it was substituted; no later
\* substitution and no {input} fallback replaces it.
C14_Original ==
  Rendered
  => /\ Len(last.value) = Len(last.arg.template)
     /\ \A i \in 1..Len(last.arg.template) :
          \A v \in { SuppliedFor(last.arg.template[i])[k] :
                       k \in 1..Len(SuppliedFor(last.arg.template[i])) } :
            HoldsPlaceholder(v) => last.value[i] = v

\* what the piece of a template is claimed to render to
ClaimedRendering(piece) ==
  IF SuppliedFor(piece) # None THEN SuppliedFor(piece)[1]
  ELSE IF piece = "{input}" THEN InputFallback
  ELSE piece

\* C15 as claimed: every {stateName}, {stateType} and {flowName} of the
\* template is replaced by the label, the type tag and the title, every
\* {input} by the fallback text, and any other placeholder is left verbatim.
C15_Original ==
  Rendered
  => /\ Len(last.value) = Len(last.arg.template)
     /\ \A i \in 1..Len(last.arg.template) :
          last.value[i] = ClaimedRendering(last.arg.template[i])

\* the three supplied values are plain text
PlainValues ==
  \A v \in {last.arg.stateName, last.arg.stateType, last.arg.flowName} :
    ~HoldsPlaceholder(v) /\ v \notin {"$&", "$$"}

\* what C14 and C15 claim does hold when the supplied values are plain text
C15_PlainValues == (Rendered /\ PlainValues) => C15_Original /\ C14_Original

----------------------------------------------------------------------------
(* The contract of the clients, over SpecLLM.  last.op is the class of the  *)
(* client whose callLLM completed, or "getLLMService".                      *)

Services == {"OllamaService", "AzureOpenAIService", "DummyService"}

\* C17: selection returns the Ollama client for "ollama", the Azure client
\* for "azureOpenAI" and the simulated client for every other provider
\* identifier ("dummy", "", unset, "Ollama"), and never throws.
C17_SelectionByProvider ==
  (last.op = "getLLMService")
  => /\ last.outcome = "returned"
     /\ (last.value = "OllamaService") <=> (last.settings.provider = "ollama")
     /\ (last.value = "AzureOpenAIService") <=> (last.settings.provider = "azureOpenAI")
     /\ (last.value = "DummyService")
          <=> (last.settings.provider \notin {"ollama", "azureOpenAI"})

C17_Witness ==
  /\ last.op = "getLLMService"
  /\ last.settings.provider = ""
  /\ last.outcome = "returned"
  /\ last.value = "DummyService"

\* the strings a client returns
ClientStrings(name) ==
  { <<"<generated text>">>, <<"No response from " \o name>> }
    \cup { <<"Error calling " \o name \o ": ", message>> :
             message \in { "Failed to fetch", name \o " request failed: ${status}",
                           "Unexpected token in JSON",
                           "Azure OpenAI API key is required",
                           "Azure OpenAI endpoint is required" } }
    \cup { DummyCallLLM(PromptOfClients).value }

\* C18: callLLM of every client completes by returning a string, whatever
\* the network call comes to (rejection, non-success status, unparsable
\* body, body without the field, success); it never throws.
C18_ClientsReturnStrings ==
  (last.op \in Services)
  => /\ last.outcome = "returned"
     /\ last.value \in ClientStrings("Ollama") \cup ClientStrings("Azure OpenAI")

C18_Witness ==
  /\ last.op = "OllamaService"
  /\ last.net = "rejects"
  /\ last.outcome = "returned"
  /\ last.value = <<"Error calling Ollama: ", "Failed to fetch">>

LacksCredentialOrEndpoint(settings) ==
  Falsy(settings.apiKey) \/ Falsy(settings.apiEndpoint)

\* C19: the Azure client whose settings lack the API key or the endpoint
\* returns the configuration-error string and has made no fetch call; a
\* fetch call is made only with both present.
C19_AzureFailsFast ==
  (last.op = "AzureOpenAIService")
  => /\ LacksCredentialOrEndpoint(last.settings)
          => /\ last.outcome = "returned"
             /\ last.value \in
                  { <<"Error calling Azure OpenAI: ", "Azure OpenAI API key is required">>,
                    <<"Error calling Azure OpenAI: ", "Azure OpenAI endpoint is required">> }
             /\ last.fetches = 0
     /\ (last.fetches > 0) => ~LacksCredentialOrEndpoint(last.settings)

C19_Witness ==
  /\ last.op = "AzureOpenAIService"
  /\ ~Falsy(last.settings.apiKey)
  /\ Falsy(last.settings.apiEndpoint)
  /\ last.value = <<"Error calling Azure OpenAI: ", "Azure OpenAI endpoint is required">>
  /\ last.fetches = 0

----------------------------------------------------------------------------
(* The remaining contract of the runner, over Spec.                         *)

\* C21: runCurrentState() at a set position that is the id of no state of
\* the flow throws the state-not-found error (it does not return a string),
\* calls neither the Document Store nor a client, and leaves the position.
C21_RunAtVanishedState ==
  (/\ last.op = "runCurrentState"
   /\ PositionIsSet(last.pre)
   /\ StatesWithId(last.pre) = {})
  => /\ Failed(last, StateNotFound)
     /\ last.storeCalls = 0
     /\ last.llmCalls = 0
     /\ last.fetched = None
     /\ currentStateId = last.pre

\* a run was refused at the dangling target a transition led to
C21_Witness ==
  /\ last.op = "runCurrentState"
  /\ last.pre = DanglingId
  /\ StatesWithId(DanglingId) = {}
  /\ \E i \in 1..Len(edges) : edges[i].target = DanglingId
  /\ Failed(last, StateNotFound)

\* the list getAvailableTransitions() returns holds a transition with this id
Offers(edgeId) ==
  \E i \in 1..Len(getAvailableTransitions) : getAvailableTransitions[i].id = edgeId

\* C22: a transitionTo(id) made at a set position succeeds exactly when id
\* is the identifier of a transition of the list getAvailableTransitions()
\* returns at that position; where the list is empty it fails.  (Transition
\* identifiers are unique in every flow of FlowDocs.)
C22_LegalMoveSet ==
  [][ (/\ last'.op = "transitionTo"
       /\ PositionIsSet(currentStateId)
       /\ last'.pre = currentStateId)
      => /\ (last'.outcome = "returned") <=> Offers(last'.arg)
         /\ getAvailableTransitions = <<>> => last'.outcome = "threw" ]_vars

\* a transition was followed at a position that another transition of the
\* flow does not leave
C22_Witness ==
  /\ last.op = "transitionTo"
  /\ last.outcome = "returned"
  /\ PositionIsSet(last.pre)
  /\ \E i \in 1..Len(edges) : edges[i].source # last.pre /\ edges[i].id # last.arg

\* the transitions of the flow with this id that lead from source to target
Leads(edgeId, source, target) ==
  \E i \in 1..Len(edges) :
    edges[i].id = edgeId /\ edges[i].source = source /\ edges[i].target = target

\* C23: a transitionTo is one step, also while a run is suspended: one that
\* succeeds was compared with the position of the state it was called in and
\* leads from it to the position it leaves, so of two requests for
\* transitions leaving s the second succeeds only if its source is the
\* target of the first.
C23_TransitionsOneAfterTheOther ==
  [][ (/\ run' = run
       /\ last'.op = "transitionTo"
       /\ last'.outcome = "returned")
      => /\ last'.pre = currentStateId
         /\ Leads(last'.arg, currentStateId, currentStateId')
         /\ (last.op = "transitionTo" /\ last.outcome = "returned")
              => \E s \in {DanglingId} \cup {nodes[i].id : i \in 1..Len(nodes)} :
                   /\ Leads(last.arg, last.pre, s)
                   /\ Leads(last'.arg, s, currentStateId') ]_vars

\* while a run is suspended, the second of two requests for transitions that
\* leave the same state was refused at the position the first had led to
C23_Witness ==
  /\ run.pc \in {"awaitStore", "awaitLLM"}
  /\ last.op = "transitionTo"
  /\ Failed(last, IllegalTransition)
  /\ last.pre = currentStateId
  /\ \E i, j \in 1..Len(edges) :
       /\ i # j
       /\ edges[j].id = last.arg
       /\ edges[i].source = edges[j].source
       /\ edges[i].target = currentStateId
       /\ edges[i].source # currentStateId
       /\ run.pre = edges[i].source

\* the completed run, which had reached the Document Store, returned what a
\* run for the state n returns: an error string naming n's agent, the text of
\* what the try block threw, or the composite with the prompt rendered for n
ResultIsFor(n, call) ==
  /\ call.outcome = "returned"
  /\ call.fetched # None
  /\ LET fetched == call.fetched[1]
     IN  IF fetched.outcome = "threw"
         THEN call.value = <<"Error running agent: ", fetched.value>>
         ELSE IF fetched.value = None
         THEN call.value = <<"Error: Agent with id=", n.agentId, " not found.">>
         ELSE IF fetched.value[1].docType # "Agent"
         THEN call.value = <<"Error: Document with id=", n.agentId, " is not an Agent.">>
         ELSE IF project = None
         THEN call.value = <<"Error running agent: ", ProjectIsUndefined>>
         ELSE /\ Len(call.value) > 10
              /\ SubSeq(call.value, 1, 10)
                   = Composite(fetched.value[1].title, RenderedFor(n), <<>>)

\* C24: whatever setStartState, transitionTo and reset do while a run is
\* suspended, the steps of the run leave the position they find, and the run
\* completes with the result for the state it was invoked at.
C24_RunKeepsItsState ==
  [][ (run.pc \in {"awaitStore", "awaitLLM"} /\ run' # run)
      => /\ currentStateId' = currentStateId
         /\ run'.pc = "idle"
              => /\ last'.op = "runCurrentState"
                 /\ last'.pre = run.pre
                 /\ \E n \in StatesWithId(run.pre) : ResultIsFor(n, last') ]_vars

\* a run completed with the composite for the state it was invoked at, at a
\* position that another state of the flow holds by then
C24_Witness ==
  /\ AgentResolved
  /\ project # None
  /\ PositionIsSet(currentStateId)
  /\ currentStateId # last.pre
  /\ \E n \in StatesWithId(last.pre), m \in StatesWithId(currentStateId) :
       /\ n.label # m.label
       /\ ResultIsFor(n, last)

\* every transition of the flow leads to a state of the flow
TargetsExist == \A i \in 1..Len(edges) : StatesWithId(edges[i].target) # {}

\* C25: the position is always null, the id of a state of the flow or the
\* target of a transition of the flow; in a flow whose transitions all lead
\* to states of the flow it is null or the id of a state, and no
\* runCurrentState fails with the state-not-found error.
C25_PositionStaysInFlow ==
  /\ \/ currentStateId = NULL
     \/ StatesWithId(currentStateId) # {}
     \/ \E i \in 1..Len(edges) : edges[i].target = currentStateId
  /\ TargetsExist
       => /\ currentStateId = NULL \/ StatesWithId(currentStateId) # {}
          /\ ~(last.op = "runCurrentState" /\ Failed(last, StateNotFound))

\* in a flow whose transitions lead to states, a run completed at the state a
\* transition had led to
C25_Witness ==
  /\ TargetsExist
  /\ Len(edges) > 0
  /\ last.op = "runCurrentState"
  /\ last.outcome = "returned"
  /\ \E i \in 1..Len(edges) :
       edges[i].target = currentStateId /\ edges[i].source # edges[i].target

----------------------------------------------------------------------------
(* The contract of FlowRunnerUI, over SpecUI.                               *)

\* C26: between handlers, whether the runner call of the last one returned
\* or threw, the position FlowRunnerUI holds is the one getCurrentStateId()
\* returns; isRunning is set only while a runCurrentState is in flight, and
\* is clear once it has returned or thrown.
C26_InterfaceFollowsRunner ==
  /\ ui.currentStateId = getCurrentStateId
  /\ ui.isRunning => run.pc # "idle"
  /\ (last.op = "runCurrentState" /\ run.pc = "idle") => ~ui.isRunning

\* a run threw at the dangling position a transition had led to
C26_Witness ==
  /\ last.op = "runCurrentState"
  /\ Failed(last, StateNotFound)
  /\ ui.log = "Error running state"
  /\ ~ui.isRunning
  /\ ui.currentStateId = DanglingId
  /\ getCurrentStateId = DanglingId

----------------------------------------------------------------------------
(* The contract of the editors, over SpecEditor.                            *)

\* C27 as claimed: whatever nodes and edges are added and removed and
\* whatever is selected, every edge of the editor joins two listed nodes,
\* and they are distinct.
C27_Original ==
  \A i \in 1..Len(editor.edges) :
    /\ editor.edges[i].source \in NodeIdsListed
    /\ editor.edges[i].target \in NodeIdsListed
    /\ editor.edges[i].source # editor.edges[i].target

\* what does hold of the editors: no edge joins a node to itself
C27_NoSelfLoops ==
  \A i \in 1..Len(editor.edges) : editor.edges[i].source # editor.edges[i].target

----------------------------------------------------------------------------
(* The contract of App, over SpecApp.                                       *)

NoHandlerPending == app.pending = {}

\* C28 as claimed: once every load has completed, at most one of the active
\* diagram, the active flow and the active agent is set.
C28_Original ==
  NoHandlerPending
  => Cardinality({ t \in DocTypes : app.active[t] # None }) <= 1

\* what does hold of loads: one that starts while no other load is
\* suspended leaves the documents of the two other types closed
C28_LoadAlone ==
  [][ (/\ NoHandlerPending
       /\ \E p \in app.pending' : p.op = "getDocument")
      => Cardinality({ t \in DocTypes : app.active'[t] # None }) <= 1 ]_vars

Referenced(doc) == \E i \in 1..Len(app.documents) : app.documents[i].docId = doc.docId

\* C29 as claimed: once every creation and every save has completed, each
\* document that a creation stored is referenced in the project's list.
C29_Original ==
  NoHandlerPending
  => \A d \in kit.documents : d \notin StoredAtStart => Referenced(d)

----------------------------------------------------------------------------
(* The contract of DocFlowKit, over SpecKit.                                *)

KitOperations ==
  {"createDocument", "getDocument", "updateDocument", "deleteDocument", "listDocuments"}

\* getDocument returned the document written last under the id it was asked
\* for, or null if none was written or it was deleted since
ReturnedLastWritten ==
  /\ last.outcome = "returned"
  /\ last.value = kit.written[last.arg]

\* C30 as claimed: while db is not assigned every operation throws the
\* not-initialized error and leaves its argument and the object store as
\* they were; once it is assigned, getDocument(id) returns the document
\* written last under id by createDocument or updateDocument, and null when
\* there is none or it was deleted.
C30_Original ==
  /\ (last.op \in KitOperations /\ Falsy(kit.db))
       => /\ Failed(last, NotInitialized)
          /\ last.argAfter = last.arg
          /\ kit.documents = {}
  /\ (last.op = "getDocument" /\ ~Falsy(kit.db)) => ReturnedLastWritten

\* what does hold of the store: the part of C30 about an initialized store,
\* and that a call before initialize() throws and stores nothing
C30_ExceptTheArgument ==
  /\ (last.op \in KitOperations /\ Falsy(kit.db))
       => /\ Failed(last, NotInitialized)
          /\ kit.documents = {}
  /\ (last.op = "getDocument" /\ ~Falsy(kit.db)) => ReturnedLastWritten

====
